---------------------------- MODULE Spec2Model ----------------------------
(***************************************************************************)
(* A model of the data_distiller pipeline: the Distillery driver           *)
(* (src/distillery.py), its configuration compiler PrimeNode               *)
(* (src/distillery.py) and the DistillerNode chain (src/distillernode.py). *)
(*                                                                         *)
(* Python strings are modelled as sequences of one-character strings, so   *)
(* that the compiler's character scanning (isupper, isdigit, count, split, *)
(* rstrip) is computed the way the code computes it.  Python's None is the *)
(* value None below; data values are the naturals 0..MaxVal, of which 0 is *)
(* the falsy-but-present value (such as 0 or an empty string).             *)
(***************************************************************************)
EXTENDS Integers, Sequences, FiniteSets, TLC

VARIABLES
    process_registry,   \* Distillery.process_registry: name -> process object
    sampling_process,   \* Distillery.sampling_process: a sink or NoSink
    nodes,              \* Distillery.nodes: the chain, a sequence of nodes
    next,               \* Distillery.next
    pc,                 \* "idle", or "config" inside PrimeNode.distill
    pn,                 \* the PrimeNode of the config_distillery call under way
    op,                 \* the last library call made
    error,              \* the exception the last call raised ("" when none)
    result,             \* the value the last distill call returned
    sinkLog,            \* the sink calls made by the last library call
    calls,              \* the process.distill calls made by the last distill
    visits,             \* the distill_node calls made by the last distill
    ncalls,             \* per node and entry: process.distill calls since compile
    cfg,                \* the file of the last config_distillery call, where recorded
    sample2table,       \* a Sample2Table object: table, indices, sampled names
    stored              \* the samples of the last Sample2Table.store_sample call

\* The Sample2Table object used on its own.
tablevars == <<sample2table, stored>>

vars == <<process_registry, sampling_process, nodes, next, pc, pn, op, error,
          result, sinkLog, calls, visits, ncalls, cfg, sample2table, stored>>

---------------------------------------------------------------------------
(* Bounds of the model. *)

\* Largest data value handed to distill.
MaxVal == 3
\* Largest number of lines of a configuration file.
MaxLines == 2
\* Largest exec_count of the head node: the number of executed runs per chain.
MaxExec == 3
\* Largest number of process.distill calls counted for one entry of a chain.
MaxCalls == 4
\* The nodes of a chain built node by node, and the entries of such a node.
MaxNodes == 2
MaxEntries == 2
MaxRows == 3

---------------------------------------------------------------------------
(* Values. *)

\* Python's None.
None == -1

Values == 0..MaxVal

\* Python truthiness of a data value: None and 0 are falsy.
Truthy(v) == v # None /\ v # 0

\* No sampling process registered (sampling_process = None).
NoSink == "NoSink"

Sinks == {"S1"}

---------------------------------------------------------------------------
(* Python string operations, on sequences of characters. *)

UpperChars == {"A", "B", "E", "X", "P", "R", "I", "N", "T"}

DigitChars == {"0", "1", "2", "3", "4", "5", "6", "7", "8", "9"}

Whitespace == {"\n", " "}

\* str.isupper() of a single character.
IsUpper(ch) == ch \in UpperChars

\* str.isdigit() of a single character.
IsDigit(ch) == ch \in DigitChars

\* str.count(token) for a one-character token.
Count(s, token) == Cardinality({i \in 1..Len(s) : s[i] = token})

\* token in str, for a one-character token.
Contains(s, token) == \E i \in 1..Len(s) : s[i] = token

\* str.startswith(token) for a one-character token.
StartsWith(s, token) == Len(s) >= 1 /\ s[1] = token

\* str.rstrip(): trailing whitespace removed.
RECURSIVE RStrip(_)
RStrip(s) ==
    IF s # <<>> /\ s[Len(s)] \in Whitespace
    THEN RStrip(SubSeq(s, 1, Len(s) - 1))
    ELSE s

\* str.replace(token, ""): every occurrence of the token removed.
Remove(s, token) == SelectSeq(s, LAMBDA ch : ch # token)

\* The index of the first occurrence of token in s, 0 when there is none.
IndexOf(s, token) ==
    IF Contains(s, token)
    THEN CHOOSE i \in 1..Len(s) : s[i] = token /\ \A j \in 1..(i - 1) : s[j] # token
    ELSE 0

\* str.split(token): always at least one piece.
RECURSIVE Split(_, _)
Split(s, token) ==
    LET i == IndexOf(s, token)
    IN  IF i = 0
        THEN <<s>>
        ELSE <<SubSeq(s, 1, i - 1)>> \o Split(SubSeq(s, i + 1, Len(s)), token)

\* str.split(token, 1): at most one split.
Split1(s, token) ==
    LET i == IndexOf(s, token)
    IN  IF i = 0
        THEN <<s>>
        ELSE <<SubSeq(s, 1, i - 1), SubSeq(s, i + 1, Len(s))>>

DigitVal(ch) ==
    CASE ch = "0" -> 0 [] ch = "1" -> 1 [] ch = "2" -> 2 [] ch = "3" -> 3
      [] ch = "4" -> 4 [] ch = "5" -> 5 [] ch = "6" -> 6 [] ch = "7" -> 7
      [] ch = "8" -> 8 [] ch = "9" -> 9

\* int(str) of a non-empty string of decimal digits.
RECURSIVE ParseInt(_)
ParseInt(s) ==
    IF s = <<>> THEN 0
    ELSE 10 * ParseInt(SubSeq(s, 1, Len(s) - 1)) + DigitVal(s[Len(s)])

---------------------------------------------------------------------------
(* The tokens of the configuration language. *)

comment_token == "#"
separator_token == ">"
opt_start_token == "("
opt_end_token == ")"
opt_separator == ","
sampling_token == "s"
repeat_exec_token == "r"
once_exec_token == "o"

---------------------------------------------------------------------------
(* Process objects and sinks: the collaborators the core calls. *)

\* A process object: what its distill does, the options config_process gave
\* it, and whether it is a copy made by the compiler.
Process(kind) == [kind |-> kind, opts |-> <<>>, copy |-> FALSE]

\* config_process called on the registered object itself, with no copy made.
CopyAndConfig_InPlace(proc, process_opt) == [proc EXCEPT !.opts = process_opt]

\* copy.copy(proc) followed by proc1.config_process(process_opt).
CopyAndConfig(proc, process_opt) ==
    [kind |-> proc.kind, opts |-> process_opt, copy |-> TRUE]

\* process.distill(input): [raised, output, samples].
\*   Dec     counts its input down: x > 0 gives (x - 1, x), 0 gives (None, None)
\*   Check   returns its input and no sample, and raises on the input 1,
\*           which it rejects
\*   Printer is PrinterProcess: it returns the builtin `input` (a truthy
\*           object, modelled as MaxVal + 1) and no sample
ProcessDistill(proc, input) ==
    CASE proc.kind = "Dec" ->
            IF input > 0
            THEN [raised |-> FALSE, output |-> input - 1, samples |-> input]
            ELSE [raised |-> FALSE, output |-> None, samples |-> None]
      [] proc.kind = "Check" ->
            IF input = 1
            THEN [raised |-> TRUE, output |-> None, samples |-> None]
            ELSE [raised |-> FALSE, output |-> input, samples |-> None]
      [] proc.kind = "Printer" ->
            [raised |-> FALSE, output |-> MaxVal + 1, samples |-> None]

\* The name PrinterProcess registers itself under.
PrinterName == <<"d", "P", "R", "I", "N", "T">>

---------------------------------------------------------------------------
(* DistillerNode: construction. *)

\* DistillerNode.__init__
NewNode ==
    [node_process_list |-> <<>>, sampling_process |-> NoSink,
     next_node |-> 0, exec_count |-> 0]

\* DistillerNode.add_process
add_process(node, process, opt_num, limited, sample_flag) ==
    [node EXCEPT !.node_process_list =
        Append(@, [process |-> process, opt_num |-> opt_num,
                   limited |-> limited, sample_flag |-> sample_flag])]

\* DistillerNode.add_sampling_process
add_sampling_process(node, sink) == [node EXCEPT !.sampling_process = sink]

\* add_node that stores nothing: the node keeps no next node.
add_node_Dropped(node, index) == node

\* DistillerNode.add_node: next_node is the index of the next node in the chain
add_node(node, index) == [node EXCEPT !.next_node = index]

---------------------------------------------------------------------------
(* PrimeNode: the configuration compiler. *)

IndexError == "IndexError"
InvalidNodeConfig == "ValueError: Invalid node configuration"
NotInRegistry == "ValueError: Process not found in registry"
DuplicateName == "ValueError: The process registry already has the process"
UnboundLocalError == "UnboundLocalError"
ProcessError == "ProcessError"

\* PrimeNode._node_opt_sanity_check
_node_opt_sanity_check(node_opt) ==
    LET repeat_count == Count(node_opt, repeat_exec_token)
        once_count == Count(node_opt, once_exec_token)
        sample_count == Count(node_opt, sampling_token)
    IN  ~ \/ repeat_count > 1
          \/ once_count > 1
          \/ sample_count > 1
          \/ (repeat_count # 1) /\ (once_count # 1)

\* _split_proc_cfg that starts the name at the first character that is neither
\* a digit nor a flag.
_split_proc_cfg_AtFirstNonFlag(proc_cfg) ==
    LET InPrefix(ch) == IsDigit(ch) \/ ch \in {repeat_exec_token, once_exec_token,
                                              sampling_token}
    IN  IF \E i \in 1..Len(proc_cfg) : ~InPrefix(proc_cfg[i])
        THEN LET index == CHOOSE i \in 1..Len(proc_cfg) :
                            /\ ~InPrefix(proc_cfg[i])
                            /\ \A j \in 1..(i - 1) : InPrefix(proc_cfg[j])
             IN  [error |-> "",
                  node_opt |-> SubSeq(proc_cfg, 1, index - 1),
                  process |-> RStrip(SubSeq(proc_cfg, index, Len(proc_cfg)))]
        ELSE [error |-> IndexError, node_opt |-> <<>>, process |-> <<>>]

\* PrimeNode._split_proc_cfg: the scan for the first upper-case character runs
\* off the end of the string (IndexError) when there is none.
_split_proc_cfg(proc_cfg) ==
    IF \E i \in 1..Len(proc_cfg) : IsUpper(proc_cfg[i])
    THEN LET index == CHOOSE i \in 1..Len(proc_cfg) :
                        /\ IsUpper(proc_cfg[i])
                        /\ \A j \in 1..(i - 1) : ~IsUpper(proc_cfg[j])
         IN  [error |-> "",
              node_opt |-> SubSeq(proc_cfg, 1, index - 1),
              process |-> RStrip(SubSeq(proc_cfg, index, Len(proc_cfg)))]
    ELSE [error |-> IndexError, node_opt |-> <<>>, process |-> <<>>]

\* _read_node_opt that does not read the leading digits: opt_num is 1.
_read_node_opt_CountOne(node_opt) ==
    IF \A i \in 1..Len(node_opt) : IsDigit(node_opt[i])
    THEN [error |-> IndexError, opt_num |-> 1, limited |-> "None",
          sample_flag |-> FALSE]
    ELSE [error |-> "",
          opt_num |-> 1,
          limited |-> IF Contains(node_opt, repeat_exec_token) THEN "False"
                      ELSE IF Contains(node_opt, once_exec_token) THEN "True"
                      ELSE "None",
          sample_flag |-> Contains(node_opt, sampling_token)]

\* PrimeNode._read_node_opt: the scan over the leading digits runs off the end
\* of the string (IndexError) when every character is a digit.
\* limited is "None", "False" or "True", as in the code.
_read_node_opt(node_opt) ==
    IF \A i \in 1..Len(node_opt) : IsDigit(node_opt[i])
    THEN [error |-> IndexError, opt_num |-> 1, limited |-> "None",
          sample_flag |-> FALSE]
    ELSE LET digit_index == (CHOOSE i \in 1..Len(node_opt) :
                                /\ ~IsDigit(node_opt[i])
                                /\ \A j \in 1..(i - 1) : IsDigit(node_opt[j])) - 1
             exec_opt == SubSeq(node_opt, digit_index + 1, Len(node_opt))
         IN  [error |-> "",
              opt_num |-> IF digit_index > 0
                          THEN ParseInt(SubSeq(node_opt, 1, digit_index))
                          ELSE 1,
              limited |-> IF Contains(exec_opt, repeat_exec_token) THEN "False"
                          ELSE IF Contains(exec_opt, once_exec_token) THEN "True"
                          ELSE "None",
              sample_flag |-> Contains(exec_opt, sampling_token)]

\* The name and option list of a process text: process_opt is <<>> for None.
ProcessNameAndOpt(process) ==
    IF Contains(process, opt_start_token)
    THEN LET temp == Split1(process, opt_start_token)
         IN  [proc_name |-> temp[1],
              process_opt |-> Split(Remove(temp[2], opt_end_token), opt_separator)]
    ELSE [proc_name |-> process, process_opt |-> <<>>]

\* PrimeNode._setup_process: [error, node]
_setup_process(registry, node, proc_cfg) ==
    LET sp == _split_proc_cfg(proc_cfg)
    IN  IF sp.error # "" THEN [error |-> sp.error, node |-> node]
        ELSE IF ~_node_opt_sanity_check(sp.node_opt)
        THEN [error |-> InvalidNodeConfig, node |-> node]
        ELSE
        LET ro == _read_node_opt(sp.node_opt)
            no == ProcessNameAndOpt(sp.process)
        IN  IF ro.error # "" THEN [error |-> ro.error, node |-> node]
            ELSE IF no.proc_name \notin DOMAIN registry
            THEN [error |-> NotInRegistry, node |-> node]
            ELSE
            LET proc == registry[no.proc_name]
                proc1 == IF no.process_opt # <<>>
                         THEN CopyAndConfig(proc, no.process_opt)
                         ELSE proc
            IN  [error |-> "",
                 node |-> add_process(node, proc1, ro.opt_num, ro.limited,
                                      ro.sample_flag)]

\* The loop over the process specifications of one line: [error, node]
RECURSIVE SetupProcesses(_, _, _)
SetupProcesses(registry, node, processes) ==
    IF processes = <<>> THEN [error |-> "", node |-> node]
    ELSE LET r == _setup_process(registry, node, Head(processes))
         IN  IF r.error # "" THEN r
             ELSE SetupProcesses(registry, r.node, Tail(processes))

\* file.readline(): "" (here <<>>) at the end of the file
ReadLine(p) ==
    IF p.file = <<>>
    THEN [p EXCEPT !.line = <<>>, !.eof = TRUE]
    ELSE [p EXCEPT !.line = Head(p.file), !.file = Tail(p.file), !.eof = FALSE]

\* PrimeNode.__init__ and the first readline of PrimeNode.distill
NewPrimeNode(config_file, sink) ==
    ReadLine([file |-> config_file, line |-> <<>>, eof |-> FALSE,
              nodes |-> <<>>, prev_node |-> 0, sampling_process |-> sink])

\* No config_distillery call under way.
NoPrimeNode ==
    [file |-> <<>>, line |-> <<>>, eof |-> TRUE, nodes |-> <<>>,
     prev_node |-> 0, sampling_process |-> NoSink]

\* One iteration of the loop of PrimeNode.distill on a line that is no
\* comment: [error, pn]
CompileLine(registry, p) ==
    LET processes == Split(p.line, separator_token)
        r == SetupProcesses(registry, NewNode, processes)
        node == add_sampling_process(r.node, p.sampling_process)
        index == Len(p.nodes) + 1
        linked == IF p.prev_node # 0
                  THEN [p.nodes EXCEPT ![p.prev_node] = add_node(@, index)]
                  ELSE p.nodes
    IN  IF r.error # "" THEN [error |-> r.error, pn |-> p]
        ELSE [error |-> "",
              pn |-> ReadLine([p EXCEPT !.nodes = Append(linked, node),
                                        !.prev_node = index])]

---------------------------------------------------------------------------
(* DistillerNode.distill_node.  A run threads a record st through the chain:  *)
(*   nodes   the chain (exec_count changes)                                   *)
(*   val     node_input                                                       *)
(*   raised  whether a process raised (the exception then propagates)         *)
(*   log     the sink calls made, in order                                    *)
(*   calls   the process.distill calls made, in order                         *)
(*   visits  the distill_node calls made, in order                            *)
(*   ncalls  the process.distill calls made per node and entry                *)

\* Sampled without the test of the entry's sample flag.
Sampled_IgnoreFlag(sink, sample_flag) == sink # NoSink

\* The test that hands a process's samples to the node's sampling process.
Sampled(sink, sample_flag) == sink # NoSink /\ sample_flag

\* The inner loop `for i in range(0, opt_num)` of entry j of node n, from
\* iteration i on.
RECURSIVE RepeatProcess(_, _, _, _)

\* RepeatProcess without the break on a None output: the remaining
\* repetitions run, on None.
RepeatProcess_NoBreak(st, n, j, i) ==
    LET node == st.nodes[n]
        entry == node.node_process_list[j]
    IN  IF i >= entry.opt_num THEN st
        ELSE
        LET r == ProcessDistill(entry.process, st.val)
            called == [st EXCEPT
                !.calls = Append(@, [node |-> n, entry |-> j, input |-> st.val,
                                     output |-> r.output, samples |-> r.samples,
                                     raised |-> r.raised]),
                !.ncalls[n][j] = @ + 1]
        IN  IF r.raised THEN [called EXCEPT !.raised = TRUE]
            ELSE RepeatProcess([called EXCEPT !.val = r.output], n, j, i + 1)

RepeatProcess(st, n, j, i) ==
    LET node == st.nodes[n]
        entry == node.node_process_list[j]
    IN  IF i >= entry.opt_num THEN st
        ELSE
        LET r == ProcessDistill(entry.process, st.val)
            called == [st EXCEPT
                !.calls = Append(@, [node |-> n, entry |-> j, input |-> st.val,
                                     output |-> r.output, samples |-> r.samples,
                                     raised |-> r.raised]),
                !.ncalls[n][j] = @ + 1]
        IN  IF r.raised THEN [called EXCEPT !.raised = TRUE]
            ELSE IF r.output = None THEN [called EXCEPT !.val = None]
            ELSE RepeatProcess(
                    [called EXCEPT
                        !.val = r.output,
                        !.log = IF Sampled(node.sampling_process, entry.sample_flag)
                                THEN Append(@, <<node.sampling_process, "store_sample",
                                                 r.samples>>)
                                ELSE @],
                    n, j, i + 1)

\* BreakLoop with the count compared by > instead of >=.
BreakLoop_OffByOne(node_input, exec_count, entry) ==
    (node_input = None) \/ (entry.limited = "True" /\ exec_count > entry.opt_num)

\* The test that leaves the loop over node_process_list at an entry.
BreakLoop(node_input, exec_count, entry) ==
    LET exec_count_reached == exec_count >= entry.opt_num
    IN  (node_input = None) \/ (entry.limited = "True" /\ exec_count_reached)

\* The loop over node_process_list of node n, from entry j on.
RECURSIVE ProcessLoop(_, _, _)

\* ProcessLoop that skips the entry it would break at and goes on to the
\* next one.
ProcessLoop_Skip(st, n, j) ==
    LET node == st.nodes[n]
    IN  IF j > Len(node.node_process_list) THEN st
        ELSE
        LET entry == node.node_process_list[j]
        IN  IF BreakLoop(st.val, node.exec_count, entry)
            THEN ProcessLoop(st, n, j + 1)
            ELSE LET done == RepeatProcess(st, n, j, 0)
                 IN  IF done.raised THEN done ELSE ProcessLoop(done, n, j + 1)

ProcessLoop(st, n, j) ==
    LET node == st.nodes[n]
    IN  IF j > Len(node.node_process_list) THEN st
        ELSE
        LET entry == node.node_process_list[j]
        IN  IF BreakLoop(st.val, node.exec_count, entry)
            THEN st
            ELSE LET done == RepeatProcess(st, n, j, 0)
                 IN  IF done.raised THEN done ELSE ProcessLoop(done, n, j + 1)

\* The test that hands the node's value on to the next node.
HandOn(node_input, next_node) == Truthy(node_input) /\ next_node # 0

\* The return of the distill_node call that is visit k of the run: the value
\* returned is st.val.
Return(st, k) == [st EXCEPT !.visits[k].output = st.val]

\* DistillerNode.distill_node on node n with node_input st.val.  A visit
\* records the node, its input and exec_count on entry, and the value returned
\* (None as long as it has not returned).
RECURSIVE distill_node(_, _)

\* distill_node that counts the call in which a process raises.
distill_node_CountRaised(st, n) ==
    LET node == st.nodes[n]
        k == Len(st.visits) + 1
        entered == [st EXCEPT
            !.visits = Append(@, [node |-> n, input |-> st.val,
                                  exec_count |-> node.exec_count,
                                  output |-> None])]
    IN  IF node.node_process_list = <<>> THEN [entered EXCEPT !.val = None]
        ELSE
        LET looped == ProcessLoop(entered, n, 1)
            counted == [looped EXCEPT !.nodes[n].exec_count = @ + 1]
        IN  IF looped.raised THEN counted
            ELSE IF HandOn(counted.val, node.next_node)
            THEN Return(distill_node(counted, node.next_node), k)
            ELSE Return(counted, k)

\* distill_node that counts the call once the next node has returned.
distill_node_CountAfterNext(st, n) ==
    LET node == st.nodes[n]
        k == Len(st.visits) + 1
        entered == [st EXCEPT
            !.visits = Append(@, [node |-> n, input |-> st.val,
                                  exec_count |-> node.exec_count,
                                  output |-> None])]
    IN  IF node.node_process_list = <<>> THEN [entered EXCEPT !.val = None]
        ELSE
        LET looped == ProcessLoop(entered, n, 1)
            counted == [looped EXCEPT !.nodes[n].exec_count = @ + 1]
        IN  IF looped.raised THEN looped
            ELSE IF HandOn(looped.val, node.next_node)
            THEN LET r == distill_node(looped, node.next_node)
                 IN  IF r.raised THEN r
                     ELSE Return([r EXCEPT !.nodes[n].exec_count = @ + 1], k)
            ELSE Return(counted, k)

distill_node(st, n) ==
    LET node == st.nodes[n]
        k == Len(st.visits) + 1
        entered == [st EXCEPT
            !.visits = Append(@, [node |-> n, input |-> st.val,
                                  exec_count |-> node.exec_count,
                                  output |-> None])]
    IN  IF node.node_process_list = <<>> THEN [entered EXCEPT !.val = None]
        ELSE
        LET looped == ProcessLoop(entered, n, 1)
            counted == [looped EXCEPT !.nodes[n].exec_count = @ + 1]
        IN  IF looped.raised THEN looped
            ELSE IF HandOn(counted.val, node.next_node)
            THEN Return(distill_node(counted, node.next_node), k)
            ELSE Return(counted, k)

\* The run record at the start of Distillery.distill(input_obj).
StartRun(input_obj) ==
    [nodes |-> nodes, val |-> input_obj, raised |-> FALSE, log |-> <<>>,
     calls |-> <<>>, visits |-> <<>>, ncalls |-> ncalls]

---------------------------------------------------------------------------
(* The library calls. *)

\* A configuration line: a string that ends in a line break.
Line(text) == text \o <<"\n">>

\* The process specifications written in configuration files.
Spec_2osA == <<"2", "o", "s", "A">>
Spec_2rsA == <<"2", "r", "s", "A">>
Spec_oB == <<"o", "B">>
Spec_rsA == <<"r", "s", "A">>
Spec_roA == <<"r", "o", "A">>
Spec_A == <<"A">>
Spec_rX == <<"r", "X">>
Spec_comment == <<"#", "r", "A">>
Spec_0rA == <<"0", "r", "A">>
Spec_rA_opt == <<"r", "A", opt_start_token, "1", opt_end_token>>
Spec_blank == <<>>
Spec_dPRINT == PrinterName
Spec_rdPRINT == <<repeat_exec_token>> \o PrinterName

\* The lines of the configuration files of the pipeline runs.
Lines ==
    { Line(Spec_2osA),
      Line(Spec_2rsA),
      Line(Spec_oB \o <<separator_token>> \o Spec_rsA),
      Line(Spec_A) }

\* The lines of the configuration files of the compiler runs.
CompileLines ==
    { Line(Spec_2osA),
      Line(Spec_oB \o <<separator_token>> \o Spec_rsA),
      Line(Spec_roA),
      Line(Spec_A),
      Line(Spec_rX),
      Line(Spec_comment),
      Line(Spec_0rA),
      Line(Spec_rA_opt),
      Line(Spec_blank),
      Line(Spec_dPRINT),
      Line(Spec_rdPRINT) }

\* The files over a set of lines: at most MaxLines lines.
Files(lines) == UNION {[1..n -> lines] : n \in 0..MaxLines}

\* The configuration files of the pipeline runs.
ConfigFiles == Files(Lines)

\* The lines that come before the last line of a configuration file of the
\* compiler runs.
PrefixLines ==
    { Line(Spec_oB \o <<separator_token>> \o Spec_rsA),
      Line(Spec_rA_opt) }

\* The configuration files of the compiler runs: the empty file, and the
\* files of at most MaxLines lines that end in any of CompileLines after
\* lines of PrefixLines.  A line that follows a line the compiler raises or
\* hangs on is never read.
CompileFiles ==
    {<<>>} \cup
    UNION { {prefix \o <<last>> : last \in CompileLines} :
                prefix \in UNION {[1..n -> PrefixLines] : n \in 0..(MaxLines - 1)} }

\* The processes registered by callers, with the names they are registered under.
Registrations ==
    { <<<<"A">>, Process("Dec")>>,
      <<<<"B">>, Process("Check")>>,
      <<PrinterName, Process("Dec")>> }

\* The registrations of the compiler runs: a process is also registered under
\* the upper-case part of the name of PrinterProcess.
CompileRegistrations ==
    Registrations \cup {<<<<"P", "R", "I", "N", "T">>, Process("Dec")>>}

\* The chain's counters of process.distill calls, all zero.
ZeroCalls(chain) ==
    [n \in 1..Len(chain) |-> [j \in 1..Len(chain[n].node_process_list) |-> 0]]

---------------------------------------------------------------------------
(* Sample2Table, the sink that stores samples as a table of columns. *)

\* The samples handed to store_sample: a Python object with its type.  A
\* dict holds its items in insertion order, as <<key, value>> pairs.
NoneSample == [type |-> "NoneType"]
IntSample(v) == [type |-> "int", value |-> v]
ListSample(l) == [type |-> "list", items |-> l]
DictSample(items) == [type |-> "dict", items |-> items]

\* isinstance(samples, dict)
IsDict(samples) == samples.type = "dict"

\* The truth value of samples.
TruthySample(samples) ==
    CASE samples.type = "NoneType" -> FALSE
      [] samples.type = "int" -> samples.value # 0
      [] samples.type = "list" -> samples.items # <<>>
      [] samples.type = "dict" -> samples.items # <<>>

\* str(n) of a natural number.
RECURSIVE str(_)
str(n) ==
    IF n < 10
    THEN <<(<<"0", "1", "2", "3", "4", "5", "6", "7", "8", "9">>)[n + 1]>>
    ELSE str(n \div 10) \o str(n % 10)

\* Sample2Table.__init__
Sample2Table(fix_repeated_names) ==
    [table |-> <<>>,
     current_index |-> 0,
     previous_index |-> None,
     sampled_names |-> {},
     fix_repeated_names |-> fix_repeated_names]

\* The name the loop of _append_sample stops on: key-n of the smallest
\* n >= fix_count that was not sampled in this batch.
RECURSIVE FixedName(_, _, _)
FixedName(key, fix_count, sampled_names) ==
    LET temp_key == key \o <<"-">> \o str(fix_count)
    IN  IF temp_key \in sampled_names
        THEN FixedName(key, fix_count + 1, sampled_names)
        ELSE temp_key

\* Sample2Table._append_sample
_append_sample(t, key, value) ==
    LET fixed == t.fix_repeated_names /\ key \in t.sampled_names
        temp_key == IF fixed THEN FixedName(key, 1, t.sampled_names) ELSE key
        table == IF fixed /\ temp_key \notin DOMAIN t.table
                 THEN t.table @@ (temp_key :> <<>>)
                 ELSE t.table
    IN  [t EXCEPT
            !.table = [table EXCEPT
                          ![temp_key] = Append(@, <<t.current_index, value>>)],
            !.sampled_names = @ \cup {temp_key}]

\* One iteration of the loop of store_sample over samples.items().
StoreItem(t, key, value) ==
    IF key \in DOMAIN t.table
    THEN _append_sample(t, key, value)
    ELSE [t EXCEPT
             !.table = t.table @@ (key :> << <<t.current_index, value>> >>),
             !.sampled_names = @ \cup {key}]

RECURSIVE StoreItems(_, _)
StoreItems(t, items) ==
    IF items = <<>> THEN t
    ELSE StoreItems(StoreItem(t, Head(items)[1], Head(items)[2]), Tail(items))

\* The first sample of a batch moves store_sample to the next index.
NextBatch(t) ==
    IF t.previous_index = t.current_index
    THEN [t EXCEPT !.current_index = @ + 1, !.sampled_names = {}]
    ELSE t

ValueError == "ValueError"

\* store_sample raises on these samples.
StoreRaises_OnlyTruthy(samples) == TruthySample(samples) /\ ~IsDict(samples)
StoreRaises(samples) == ~IsDict(samples)

\* The rows of the table.
RECURSIVE RowCount(_, _)
RowCount(table, keys) ==
    IF keys = {} THEN 0
    ELSE LET k == CHOOSE x \in keys : TRUE
         IN  Len(table[k]) + RowCount(table, keys \ {k})

Rows(t) == RowCount(t.table, DOMAIN t.table)

---------------------------------------------------------------------------
(* The pipeline and the sink after construction. *)

\* Distillery.__init__ with _prime_config, and Sample2Table.__init__.
Init ==
    /\ process_registry = (PrinterName :> Process("Printer"))
    /\ sampling_process = NoSink
    /\ nodes = <<>>
    /\ next = FALSE
    /\ pc = "idle"
    /\ pn = NoPrimeNode
    /\ op = "init"
    /\ error = ""
    /\ result = None
    /\ sinkLog = <<>>
    /\ calls = <<>>
    /\ visits = <<>>
    /\ ncalls = <<>>
    /\ cfg = <<>>
    /\ sample2table = Sample2Table(FALSE)
    /\ stored = NoneSample

\* What a call that runs no node leaves of the last run's record.
NoRun == calls' = <<>> /\ visits' = <<>> /\ result' = None

\* register_process that stores the object under a name already registered.
register_process_Overwrite(process_name, process_obj) ==
    /\ pc = "idle"
    /\ op' = "register_process"
    /\ error' = IF process_name \in DOMAIN process_registry
                THEN DuplicateName ELSE ""
    /\ process_registry' =
          [n \in DOMAIN process_registry \cup {process_name} |->
              IF n = process_name THEN process_obj ELSE process_registry[n]]
    /\ sinkLog' = <<>>
    /\ NoRun
    /\ UNCHANGED <<sampling_process, nodes, next, pc, pn, ncalls, cfg>>

\* Distillery.register_process(process_name, process_obj)
register_process(process_name, process_obj) ==
    /\ pc = "idle"
    /\ op' = "register_process"
    /\ IF process_name \in DOMAIN process_registry
       THEN /\ error' = DuplicateName
            /\ UNCHANGED process_registry
       ELSE /\ error' = ""
            /\ process_registry' = process_registry @@ (process_name :> process_obj)
    /\ sinkLog' = <<>>
    /\ NoRun
    /\ UNCHANGED <<sampling_process, nodes, next, pc, pn, ncalls, cfg>>

\* register_sampling_process that hands the sink on to the nodes of the chain.
register_sampling_process_Reattach(sink) ==
    /\ pc = "idle"
    /\ op' = "register_sampling_process"
    /\ sampling_process' = sink
    /\ nodes' = [n \in DOMAIN nodes |-> add_sampling_process(nodes[n], sink)]
    /\ error' = ""
    /\ sinkLog' = <<>>
    /\ NoRun
    /\ UNCHANGED <<process_registry, next, pc, pn, ncalls, cfg>>

\* Distillery.register_sampling_process(sampling_process)
register_sampling_process(sink) ==
    /\ pc = "idle"
    /\ op' = "register_sampling_process"
    /\ sampling_process' = sink
    /\ error' = ""
    /\ sinkLog' = <<>>
    /\ NoRun
    /\ UNCHANGED <<process_registry, nodes, next, pc, pn, ncalls, cfg>>

\* The sink calls of Distillery.reset_distillery.
ResetLog ==
    IF sampling_process # NoSink
    THEN <<<<sampling_process, "start_sampling_process", None>>>>
    ELSE <<>>

\* reset_distillery that also sets every node's exec_count back to 0.
reset_distillery_ZeroCounts ==
    /\ pc = "idle"
    /\ op' = "reset_distillery"
    /\ sinkLog' = ResetLog
    /\ next' = TRUE
    /\ error' = ""
    /\ nodes' = [n \in DOMAIN nodes |-> [nodes[n] EXCEPT !.exec_count = 0]]
    /\ NoRun
    /\ UNCHANGED <<process_registry, sampling_process, pc, pn, ncalls, cfg>>

\* Distillery.reset_distillery()
reset_distillery ==
    /\ pc = "idle"
    /\ op' = "reset_distillery"
    /\ sinkLog' = ResetLog
    /\ next' = TRUE
    /\ error' = ""
    /\ NoRun
    /\ UNCHANGED <<process_registry, sampling_process, nodes, pc, pn, ncalls, cfg>>

\* The loop of PrimeNode.distill from the PrimeNode state p on: it
\*   returns   at the end of the file, with the nodes built,
\*   raises    on a line that does not compile, or
\*   loops     on a comment line: `continue` with no readline enters the loop
\*             again on the same line, for ever.
RECURSIVE PrimeNodeDistill(_, _)
PrimeNodeDistill(registry, p) ==
    IF p.eof THEN [status |-> "returns", error |-> "", pn |-> p]
    ELSE IF StartsWith(p.line, comment_token)
    THEN [status |-> "loops", error |-> "", pn |-> p]
    ELSE LET r == CompileLine(registry, p)
         IN  IF r.error # ""
             THEN [status |-> "raises", error |-> r.error, pn |-> p]
             ELSE PrimeNodeDistill(registry, r.pn)

\* ConfiguredChain with the exec_count of the old chain's nodes carried over
\* to the nodes that take their places.
ConfiguredChain_KeepCounts(old, r) ==
    IF r.status = "returns"
    THEN [n \in DOMAIN r.pn.nodes |->
            IF n \in DOMAIN old
            THEN [r.pn.nodes[n] EXCEPT !.exec_count = old[n].exec_count]
            ELSE r.pn.nodes[n]]
    ELSE old

\* ConfiguredChain with the nodes stored as they are built: a compilation
\* that raises leaves the nodes built so far.
ConfiguredChain_Partial(old, r) == r.pn.nodes

\* self.nodes = prime_node.distill(): the assignment is made when distill
\* returns.
ConfiguredChain(old, r) == IF r.status = "returns" THEN r.pn.nodes ELSE old

\* Distillery.config_distillery(config_file): PrimeNode.distill compiles the
\* file; when it returns, the chain is stored and reset_distillery called;
\* when it raises, nothing is stored; when it loops, the call never returns
\* (pc stays "config").  What cfg records of the call is left to the
\* specification.
config_distillery(config_file) ==
    /\ pc = "idle"
    /\ op' = "config_distillery"
    /\ \E r \in {PrimeNodeDistill(process_registry,
                                  NewPrimeNode(config_file, sampling_process))} :
           /\ nodes' = ConfiguredChain(nodes, r)
           /\ ncalls' = IF r.status = "returns" THEN ZeroCalls(r.pn.nodes) ELSE ncalls
           /\ IF r.status = "returns"
              THEN /\ sinkLog' = ResetLog
                   /\ next' = TRUE
                   /\ error' = ""
                   /\ UNCHANGED <<pc, pn>>
              ELSE IF r.status = "raises"
              THEN /\ error' = r.error
                   /\ sinkLog' = <<>>
                   /\ UNCHANGED <<next, pc, pn>>
              ELSE /\ pc' = "config"
                   /\ pn' = r.pn
                   /\ error' = ""
                   /\ sinkLog' = <<>>
                   /\ UNCHANGED next
    /\ NoRun
    /\ UNCHANGED <<process_registry, sampling_process>>

\* One more iteration of the loop of PrimeNode.distill on the comment line
\* it is stuck on: nothing is read and nothing changes.
PrimeNodeComment ==
    /\ pc = "config"
    /\ ~pn.eof
    /\ StartsWith(pn.line, comment_token)
    /\ UNCHANGED vars

\* The head node has been executed fewer than MaxExec times.
WithinBound == IF nodes = <<>> THEN TRUE ELSE nodes[1].exec_count < MaxExec

\* No entry's counter of process.distill calls exceeds MaxCalls.
CallsWithinBound(counters) ==
    \A n \in DOMAIN counters : \A j \in DOMAIN counters[n] :
        counters[n][j] <= MaxCalls

\* NextAfter by the truth value of results instead of `is None`.
NextAfter_Truthy(results) == Truthy(results)

\* Distillery.next after a run that returned results.
NextAfter(results) == results # None

\* The sink call that ends a run: continue or stop, when a sink is registered.
BatchSignal(sink, more) ==
    IF sink # NoSink
    THEN <<<<sink,
             IF more THEN "continue_sampling_process" ELSE "stop_sampling_process",
             None>>>>
    ELSE <<>>

\* distill that runs the chain whatever self.next is.
distill_IgnoreNext(input_obj) ==
    /\ pc = "idle"
    /\ WithinBound
    /\ op' = "distill"
    /\ IF nodes # <<>>
       THEN \E st \in {distill_node(StartRun(input_obj), 1)} :
                /\ CallsWithinBound(st.ncalls)
                /\ nodes' = st.nodes
                /\ calls' = st.calls
                /\ visits' = st.visits
                /\ ncalls' = st.ncalls
                /\ IF st.raised
                   THEN /\ error' = ProcessError
                        /\ result' = None
                        /\ sinkLog' = st.log
                        /\ UNCHANGED next
                   ELSE /\ error' = ""
                        /\ result' = st.val
                        /\ next' = NextAfter(st.val)
                        /\ sinkLog' = st.log \o
                              BatchSignal(sampling_process, NextAfter(st.val))
       ELSE \* `return results` with results never assigned
            /\ error' = UnboundLocalError
            /\ sinkLog' = <<>>
            /\ NoRun
            /\ UNCHANGED <<nodes, next, ncalls>>
    /\ UNCHANGED <<process_registry, sampling_process, pc, pn, cfg>>

\* Distillery.distill(input_obj), within the bounds of the model
distill(input_obj) ==
    /\ pc = "idle"
    /\ WithinBound
    /\ op' = "distill"
    /\ IF nodes # <<>> /\ next
       THEN \E st \in {distill_node(StartRun(input_obj), 1)} :
                /\ CallsWithinBound(st.ncalls)
                /\ nodes' = st.nodes
                /\ calls' = st.calls
                /\ visits' = st.visits
                /\ ncalls' = st.ncalls
                /\ IF st.raised
                   THEN /\ error' = ProcessError
                        /\ result' = None
                        /\ sinkLog' = st.log
                        /\ UNCHANGED next
                   ELSE /\ error' = ""
                        /\ result' = st.val
                        /\ next' = NextAfter(st.val)
                        /\ sinkLog' = st.log \o
                              BatchSignal(sampling_process, NextAfter(st.val))
       ELSE \* `return results` with results never assigned
            /\ error' = UnboundLocalError
            /\ sinkLog' = <<>>
            /\ NoRun
            /\ UNCHANGED <<nodes, next, ncalls>>
    /\ UNCHANGED <<process_registry, sampling_process, pc, pn, cfg>>


\* The calls of a pipeline that is configured and run.
Next ==
    \/ (\E r \in Registrations : register_process(r[1], r[2]))
       /\ UNCHANGED tablevars
    \/ (\E s \in Sinks \cup {NoSink} : register_sampling_process(s))
       /\ UNCHANGED tablevars
    \/ reset_distillery /\ UNCHANGED tablevars
    \/ (\E f \in ConfigFiles : config_distillery(f) /\ UNCHANGED cfg)
       /\ UNCHANGED tablevars
    \/ (\E v \in Values \cup {None} : distill(v)) /\ UNCHANGED tablevars

Spec == Init /\ [][Next]_vars

\* The calls of a pipeline that is configured again and again, each file
\* recorded in cfg.
CompileNext ==
    \/ (\E r \in CompileRegistrations : register_process(r[1], r[2]))
       /\ UNCHANGED tablevars
    \/ (\E f \in CompileFiles : config_distillery(f) /\ cfg' = f)
       /\ UNCHANGED tablevars
    \/ PrimeNodeComment

\* The loop of PrimeNode.distill is not suspended from outside: it takes its
\* next iteration whenever that changes something.
CompileSpec == Init /\ [][CompileNext]_vars /\ WF_vars(CompileNext)

---------------------------------------------------------------------------
(* DistillerNode used on its own: a caller builds a chain with the class's   *)
(* methods and calls distill_node on its first node.                         *)

\* The arguments of add_process: (process, opt_num, limited, sample_flag).
NodeEntries ==
    { <<Process("Dec"), 1, "True", FALSE>>,
      <<Process("Dec"), 2, "False", FALSE>> }

\* DistillerNode(): a new node, which add_node makes the next node of the
\* last node of the chain.
NewChainNode ==
    /\ pc = "idle"
    /\ Len(nodes) < MaxNodes
    /\ op' = "DistillerNode"
    /\ nodes' = Append(IF nodes = <<>> THEN nodes
                       ELSE [nodes EXCEPT ![Len(nodes)] = add_node(@, Len(nodes) + 1)],
                       NewNode)
    /\ ncalls' = Append(ncalls, <<>>)
    /\ error' = ""
    /\ sinkLog' = <<>>
    /\ NoRun
    /\ UNCHANGED <<process_registry, sampling_process, next, pc, pn, cfg>>

\* node.add_process(process, opt_num, limited, sample_flag) on the last node
\* of the chain.
NodeAddProcess(process, opt_num, limited, sample_flag) ==
    /\ pc = "idle"
    /\ nodes # <<>>
    /\ Len(nodes[Len(nodes)].node_process_list) < MaxEntries
    /\ op' = "add_process"
    /\ nodes' = [nodes EXCEPT ![Len(nodes)] =
                    add_process(@, process, opt_num, limited, sample_flag)]
    /\ ncalls' = [ncalls EXCEPT ![Len(nodes)] = Append(@, 0)]
    /\ error' = ""
    /\ sinkLog' = <<>>
    /\ NoRun
    /\ UNCHANGED <<process_registry, sampling_process, next, pc, pn, cfg>>

\* nodes[0].distill_node(node_input), called on the first node of the chain,
\* within the bounds of the model.
NodeDistill(node_input) ==
    /\ pc = "idle"
    /\ nodes # <<>>
    /\ WithinBound
    /\ op' = "distill_node"
    /\ \E st \in {distill_node(StartRun(node_input), 1)} :
           /\ CallsWithinBound(st.ncalls)
           /\ nodes' = st.nodes
           /\ calls' = st.calls
           /\ visits' = st.visits
           /\ ncalls' = st.ncalls
           /\ sinkLog' = st.log
           /\ error' = IF st.raised THEN ProcessError ELSE ""
           /\ result' = IF st.raised THEN None ELSE st.val
    /\ UNCHANGED <<process_registry, sampling_process, next, pc, pn, cfg>>

\* The calls of a caller that builds a chain of nodes and runs it.
NodeNext ==
    \/ NewChainNode /\ UNCHANGED tablevars
    \/ (\E e \in NodeEntries : NodeAddProcess(e[1], e[2], e[3], e[4]))
       /\ UNCHANGED tablevars
    \/ (\E v \in Values \cup {None} : NodeDistill(v)) /\ UNCHANGED tablevars

NodeSpec == Init /\ [][NodeNext]_vars

---------------------------------------------------------------------------
(* A Sample2Table object driven through its own methods. *)

\* The variables of the pipeline, which a Sample2Table method leaves alone.
pipevars == <<process_registry, sampling_process, nodes, next, pc, pn, result,
              sinkLog, calls, visits, ncalls, cfg>>

TableKeys == {<<"a">>, <<"b">>}
TableValues == {0, 1}

\* The dicts handed to store_sample: up to two items with distinct keys.
Dicts ==
    {DictSample(<<>>)}
    \cup {DictSample(<< <<k, v>> >>) : k \in TableKeys, v \in TableValues}
    \cup {DictSample(<< <<k[1], v>>, <<k[2], v>> >>) :
            k \in {x \in TableKeys \X TableKeys : x[1] # x[2]},
            v \in TableValues}

\* The samples that are no dicts: None, numbers, lists.
NonDicts ==
    {NoneSample, IntSample(0), IntSample(1), ListSample(<<>>),
     ListSample(<<1>>)}

NewSample2Table(fix_repeated_names) ==
    /\ sample2table' = Sample2Table(fix_repeated_names)
    /\ op' = "Sample2Table"
    /\ error' = ""
    /\ UNCHANGED <<stored, pipevars>>

start_sampling_process ==
    /\ sample2table' = [sample2table EXCEPT !.table = <<>>,
                                            !.current_index = 0,
                                            !.previous_index = None,
                                            !.sampled_names = {}]
    /\ op' = "start_sampling_process"
    /\ error' = ""
    /\ UNCHANGED <<stored, pipevars>>

continue_sampling_process ==
    /\ sample2table' = [sample2table EXCEPT
                           !.previous_index = sample2table.current_index]
    /\ op' = "continue_sampling_process"
    /\ error' = ""
    /\ UNCHANGED <<stored, pipevars>>

stop_sampling_process ==
    /\ op' = "stop_sampling_process"
    /\ error' = ""
    /\ UNCHANGED <<sample2table, stored, pipevars>>

store_sample(samples) ==
    /\ IsDict(samples) => Rows(sample2table) + Len(samples.items) <= MaxRows
    /\ op' = "store_sample"
    /\ stored' = samples
    /\ IF TruthySample(samples) /\ IsDict(samples)
       THEN /\ sample2table' = StoreItems(NextBatch(sample2table), samples.items)
            /\ error' = ""
       ELSE /\ error' = IF StoreRaises(samples) THEN ValueError ELSE ""
            /\ UNCHANGED sample2table
    /\ UNCHANGED pipevars

TableNext ==
    \/ \E fix \in BOOLEAN : NewSample2Table(fix)
    \/ start_sampling_process
    \/ continue_sampling_process
    \/ stop_sampling_process
    \/ \E samples \in Dicts \cup NonDicts : store_sample(samples)

TableSpec == Init /\ [][TableNext]_vars

---------------------------------------------------------------------------
(* The record of the last run, read by the properties below. *)

\* The process.distill calls the last run made in node n, in order.
CallsOf(n) == SelectSeq(calls, LAMBDA c : c.node = n)

\* Node n holds a single entry, whose limited is the given one.
SingleEntry(n, limited) ==
    /\ Len(nodes[n].node_process_list) = 1
    /\ nodes[n].node_process_list[1].limited = limited

\* The entry a recorded call was made on.
EntryOf(c) == nodes[c.node].node_process_list[c.entry]

---------------------------------------------------------------------------
(* C1: for a limited entry with repeat count k, the process.distill calls   *)
(* made on the entry over all the runs of its node never number more than   *)
(* k.  The code runs the entry k times on each of the first k invocations.  *)
C1_LimitedCallsAtMostRepeatCount ==
    \A n \in DOMAIN nodes : \A j \in DOMAIN nodes[n].node_process_list :
        nodes[n].node_process_list[j].limited = "True"
            => ncalls[n][j] <= nodes[n].node_process_list[j].opt_num

(* C2: a node with a single limited entry of repeat count k, invoked with a *)
(* present input, runs the entry's process on invocations 1..k (exec_count  *)
(* below k on entry) and makes no process.distill call on later ones.       *)
C2_LimitedRunsOnFirstKInvocations ==
    \A i \in DOMAIN visits :
        LET v == visits[i]
            k == nodes[v.node].node_process_list[1].opt_num
        IN  (SingleEntry(v.node, "True") /\ v.input # None)
                => IF v.exec_count < k
                   THEN CallsOf(v.node) # <<>>
                   ELSE CallsOf(v.node) = <<>>

\* A node with a single limited entry of repeat count 2 is invoked a third
\* time or later, with a present input.
C2_Witness ==
    \E i \in DOMAIN visits :
        /\ SingleEntry(visits[i].node, "True")
        /\ nodes[visits[i].node].node_process_list[1].opt_num = 2
        /\ visits[i].input # None
        /\ visits[i].exec_count >= 2

(* C3: a node with a single unlimited entry of repeat count k, invoked with *)
(* a present input, calls the process at most k times, the first call on    *)
(* the node's input and each later call on the output of the call before;   *)
(* no call follows a None output, and fewer than k calls are made only when *)
(* the last one returned None.  This holds whatever the node's exec_count.  *)
C3_UnlimitedRunsKTimesThreaded ==
    \A i \in DOMAIN visits :
        LET v == visits[i]
            k == nodes[v.node].node_process_list[1].opt_num
            cs == CallsOf(v.node)
        IN  (SingleEntry(v.node, "False") /\ v.input # None)
                => /\ Len(cs) <= k
                   /\ \A c \in DOMAIN cs :
                        cs[c].input = IF c = 1 THEN v.input ELSE cs[c - 1].output
                   /\ \A c \in 1..(Len(cs) - 1) : cs[c].output # None
                   /\ Len(cs) < k => (cs # <<>> /\ cs[Len(cs)].output = None)

\* A node with a single unlimited entry of repeat count 2, already invoked
\* twice or more, runs its process twice, the second call on the output of
\* the first.
C3_Witness ==
    \E i \in DOMAIN visits :
        /\ SingleEntry(visits[i].node, "False")
        /\ nodes[visits[i].node].node_process_list[1].opt_num = 2
        /\ visits[i].exec_count >= 2
        /\ Len(CallsOf(visits[i].node)) = 2
        /\ CallsOf(visits[i].node)[2].input = CallsOf(visits[i].node)[1].output
        /\ CallsOf(visits[i].node)[1].input = visits[i].input

(* C4: after a distill call, "it returned None and next is false" holds     *)
(* exactly when the head node's execution yielded None or the chain is      *)
(* empty.  On an empty chain the code raises instead of returning.          *)
C4_AbsentIffHeadAbsentOrEmptyChain ==
    op = "distill" =>
        ((error = "" /\ result = None /\ ~next)
            <=> \/ (visits # <<>> /\ error = "" /\ visits[1].output = None)
                \/ nodes = <<>>)

(* C5: a distill call made with no head node, or with next false, returns   *)
(* None without an error, executes no node, makes no sink call and leaves   *)
(* next and the chain (its exec_counts) as they were.                       *)
C5_NoOpRunReturnsAbsent ==
    [][(op' = "distill" /\ (nodes = <<>> \/ ~next))
          => /\ error' = ""
             /\ result' = None
             /\ visits' = <<>>
             /\ sinkLog' = <<>>
             /\ next' = next
             /\ nodes' = nodes]_vars

\* The sink calls of the last call that are no store_sample.
Signals == SelectSeq(sinkLog, LAMBDA e : e[2] # "store_sample")

(* C6: a distill call that executes the head node and returns sets next to  *)
(* "the result is not None", returns the head node's result and, when a     *)
(* sampling process is registered, makes exactly one continue or stop call  *)
(* on it, after every store_sample call of the run: continue when the       *)
(* result is not None, stop when it is None.                                *)
C6_RunSetsNextAndSignalsOnce ==
    (op = "distill" /\ visits # <<>> /\ error = "") =>
        /\ next = (result # None)
        /\ result = visits[1].output
        /\ IF sampling_process # NoSink
           THEN /\ Signals =
                    <<<<sampling_process,
                        IF result # None THEN "continue_sampling_process"
                                         ELSE "stop_sampling_process",
                        None>>>>
                /\ sinkLog[Len(sinkLog)][2] # "store_sample"
           ELSE Signals = <<>>

\* A run stores a sample, returns the falsy value 0 and signals continue.
C6_Witness ==
    /\ op = "distill" /\ visits # <<>> /\ error = ""
    /\ sampling_process # NoSink
    /\ Len(sinkLog) >= 2
    /\ sinkLog[1][2] = "store_sample"
    /\ result = 0
    /\ sinkLog[Len(sinkLog)][2] = "continue_sampling_process"

\* The store_sample calls of the last call.
Stores == SelectSeq(sinkLog, LAMBDA e : e[2] = "store_sample")

\* The process.distill calls of the last run that returned an output other
\* than None, on an entry with the sample flag, in a node that holds a
\* sampling process.
SampledCalls ==
    SelectSeq(calls, LAMBDA c :
        /\ ~c.raised
        /\ c.output # None
        /\ EntryOf(c).sample_flag
        /\ nodes[c.node].sampling_process # NoSink)

(* C7: over one run, the store_sample calls are, one for one and in order,  *)
(* the process.distill calls that returned an output other than None on an  *)
(* entry with the sample flag, over every node reached, each handing the    *)
(* samples returned to the node's sampling process; calls on entries        *)
(* without the flag and calls that returned None store nothing.             *)
C7_OneStorePerSampledCall ==
    op = "distill" =>
        /\ Len(Stores) = Len(SampledCalls)
        /\ \A i \in DOMAIN Stores :
              Stores[i] = <<nodes[SampledCalls[i].node].sampling_process,
                            "store_sample", SampledCalls[i].samples>>

\* A run over two nodes stores samples, makes a call on an entry without the
\* sample flag and a call that returns None on an entry with the flag.
C7_Witness ==
    /\ op = "distill"
    /\ Len(visits) = 2
    /\ Len(Stores) >= 2
    /\ \E i \in DOMAIN calls : ~EntryOf(calls[i]).sample_flag /\ calls[i].output # None
    /\ \E i \in DOMAIN calls :
          /\ EntryOf(calls[i]).sample_flag
          /\ nodes[calls[i].node].sampling_process # NoSink
          /\ ~calls[i].raised
          /\ calls[i].output = None

(* C9: a config_distillery call that raises leaves the chain as it was, the *)
(* same nodes with the same entries, links and exec_counts, and leaves next *)
(* as it was.                                                               *)
C9_FailedConfigLeavesChain ==
    [][(op' = "config_distillery" /\ error' # "")
          => (nodes' = nodes /\ next' = next)]_vars

\* A config_distillery call has raised on a pipeline whose chain of two nodes
\* has been run and whose next is false.
C9_Witness ==
    /\ op = "config_distillery"
    /\ error # ""
    /\ Len(nodes) = 2
    /\ nodes[2].exec_count > 0
    /\ ~next

\* The process specifications of a configuration file, in file order.
RECURSIVE SpecsOf(_)
SpecsOf(file) ==
    IF file = <<>> THEN <<>>
    ELSE Split(Head(file), separator_token) \o SpecsOf(Tail(file))

\* The flag prefix of a specification has both exec flags or neither.
HasBadExecFlags(proc_cfg) ==
    LET sp == _split_proc_cfg(proc_cfg)
    IN  /\ sp.error = ""
        /\ Contains(sp.node_opt, repeat_exec_token)
              = Contains(sp.node_opt, once_exec_token)

\* The specification names a registered process.
Resolves(registry, proc_cfg) ==
    ProcessNameAndOpt(_split_proc_cfg(proc_cfg).process).proc_name
        \in DOMAIN registry

\* Some specification of the file has both exec flags or neither, and every
\* specification before it has one exec flag and a registered name.
FirstFaultHasBadExecFlags(registry, file) ==
    LET specs == SpecsOf(file)
    IN  \E i \in DOMAIN specs :
            /\ HasBadExecFlags(specs[i])
            /\ \A j \in 1..(i - 1) :
                  ~HasBadExecFlags(specs[j]) /\ Resolves(registry, specs[j])

(* C8: a config_distillery call that has ended, on a file whose first       *)
(* faulty specification has both the 'r' and the 'o' flag or neither, has   *)
(* raised the invalid-node-configuration error and has left the chain as it *)
(* was.  The code accepts a specification with both flags.                  *)
C8_BothOrNeitherExecFlagFails ==
    [][(/\ op' = "config_distillery"
        /\ pc' = "idle"
        /\ FirstFaultHasBadExecFlags(process_registry, cfg'))
          => (error' = InvalidNodeConfig /\ nodes' = nodes)]_vars

(* C10: every config_distillery call under way ends: the compilation of a   *)
(* file terminates, a comment line being skipped.  The code never leaves a  *)
(* comment line.                                                            *)
C10_CompilationTerminates == (pc = "config") ~> (pc = "idle")

\* A blank line: nothing but white space.
IsBlank(line) == RStrip(line) = <<>>

\* A comment line.
IsComment(line) == StartsWith(line, comment_token)

\* The file without its blank lines.
WithoutBlank(file) == SelectSeq(file, LAMBDA l : ~IsBlank(l))

(* C11: a config_distillery call on a file with blank lines (and no comment *)
(* line) ends as the call on the same file without its blank lines does:    *)
(* the same error or none, and the same chain.  The code raises IndexError  *)
(* on a blank line.                                                         *)
C11_BlankLinesAreNoOps ==
    [][(/\ op' = "config_distillery"
        /\ pc' = "idle"
        /\ \E i \in DOMAIN cfg' : IsBlank(cfg'[i])
        /\ \A i \in DOMAIN cfg' : ~IsComment(cfg'[i]))
          => \E r \in {PrimeNodeDistill(process_registry,
                          NewPrimeNode(WithoutBlank(cfg'), sampling_process))} :
                 /\ error' = r.error
                 /\ nodes' = ConfiguredChain(nodes, r)]_vars

\* Entry j of the node is the one the specification proc_cfg asks for: the
\* registered process of that name, with the sample flag of its prefix.
EntryFrom(entry, proc_cfg) ==
    LET sp == _split_proc_cfg(proc_cfg)
        name == ProcessNameAndOpt(sp.process).proc_name
    IN  /\ name \in DOMAIN process_registry
        /\ entry.process.kind = process_registry[name].kind
        /\ entry.sample_flag = Contains(sp.node_opt, sampling_token)

\* The node is the one built from the line: an entry per specification, in
\* the order of the line.
NodeFrom(node, line) ==
    LET specs == Split(line, separator_token)
    IN  /\ Len(node.node_process_list) = Len(specs)
        /\ \A j \in DOMAIN specs : EntryFrom(node.node_process_list[j], specs[j])

\* The last call was a config_distillery call that returned.
Compiled == op = "config_distillery" /\ pc = "idle" /\ error = ""

(* C12: a file of N lines, none of them blank or a comment, that compiles   *)
(* gives a chain of exactly N nodes: node i is built from line i, its next  *)
(* node is node i + 1 for i < N, and the last node has no next node.        *)
C12_OneNodePerLineInOrder ==
    (/\ Compiled
     /\ \A i \in DOMAIN cfg : ~IsBlank(cfg[i]) /\ ~IsComment(cfg[i]))
        => /\ Len(nodes) = Len(cfg)
           /\ \A i \in DOMAIN nodes :
                /\ NodeFrom(nodes[i], cfg[i])
                /\ nodes[i].next_node = IF i < Len(nodes) THEN i + 1 ELSE 0

\* A file of two different lines, the first with two specifications, has
\* compiled.
C12_Witness ==
    /\ Compiled
    /\ Len(cfg) = 2
    /\ cfg[1] # cfg[2]
    /\ Len(nodes) = 2
    /\ Len(nodes[1].node_process_list) = 2
    /\ Len(nodes[2].node_process_list) = 1

(* C13: a register_process call either raises the duplicate-name error and  *)
(* leaves the registry as it was, every name on the process registered      *)
(* first, or raises nothing and adds one name that was not registered; a    *)
(* call on a registered name, the printer's included, is of the first kind. *)
C13_DuplicateNameLeavesRegistry ==
    [][op' = "register_process" =>
          \/ /\ error' = DuplicateName
             /\ process_registry' = process_registry
          \/ /\ error' = ""
             /\ \E name \in DOMAIN process_registry' \ DOMAIN process_registry :
                   /\ DOMAIN process_registry' = DOMAIN process_registry \cup {name}
                   /\ \A n \in DOMAIN process_registry :
                         process_registry'[n] = process_registry[n]]_vars

\* A register_process call has raised the duplicate-name error; the printer's
\* name is still on PrinterProcess, though a call has tried to register
\* another process under it, and "A" is registered.
C13_Witness ==
    /\ op = "register_process"
    /\ error = DuplicateName
    /\ process_registry[PrinterName] = Process("Printer")
    /\ <<"A">> \in DOMAIN process_registry
    /\ <<"B">> \in DOMAIN process_registry

\* The process an entry compiled from the specification holds: a configured
\* copy of the registered object when the specification has an option list,
\* the registered object itself when it has none.
HoldsOwnCopyOrInstance(entry, proc_cfg, registry) ==
    LET no == ProcessNameAndOpt(_split_proc_cfg(proc_cfg).process)
        instance == registry[no.proc_name]
    IN  IF Contains(proc_cfg, opt_start_token)
        THEN /\ entry.process.copy
             /\ entry.process.kind = instance.kind
             /\ entry.process.opts = no.process_opt
             /\ entry.process # instance
        ELSE entry.process = instance

(* C14: a config_distillery call, whether it returns, raises or hangs,      *)
(* leaves the registry as it was: every name on the same object, and no     *)
(* registered object configured.  In the chain of a call that returns, an   *)
(* entry of a specification with an option list holds a copy of the         *)
(* registered object, configured with these options, and an entry of a      *)
(* specification without options holds the registered object itself.        *)
C14_CompileLeavesRegistry ==
    [][op' = "config_distillery" =>
          /\ process_registry' = process_registry
          /\ \A n \in DOMAIN process_registry' :
                process_registry'[n].opts = <<>> /\ ~process_registry'[n].copy
          /\ (pc' = "idle" /\ error' = "") =>
                \A i \in DOMAIN nodes' :
                    LET specs == Split(cfg'[i], separator_token)
                    IN  \A j \in DOMAIN specs :
                            HoldsOwnCopyOrInstance(nodes'[i].node_process_list[j],
                                                   specs[j], process_registry')]_vars

\* A file has compiled to a chain with an entry that holds a configured copy
\* and an entry that holds the registered object.
C14_Witness ==
    /\ Compiled
    /\ Len(nodes) = 2
    /\ nodes[1].node_process_list[1].process.copy
    /\ nodes[1].node_process_list[1].process.opts = <<<<"1">>>>
    /\ ~nodes[2].node_process_list[1].process.copy

\* Entry j of node n is limited and the node's exec_count has reached its
\* repeat count.
Exhausted(chain, n, j) ==
    /\ chain[n].node_process_list[j].limited = "True"
    /\ chain[n].exec_count >= chain[n].node_process_list[j].opt_num

(* C15: a reset_distillery call sets next to true, makes one                *)
(* start_sampling_process call when a sampling process is registered and no *)
(* sink call otherwise, and changes nothing else: the registry, the         *)
(* sampling process and the chain (every node's entries, next node and      *)
(* exec_count) stay, so that a limited entry exhausted before the call is   *)
(* exhausted after it.                                                      *)
C15_ResetKeepsChain ==
    [][op' = "reset_distillery" =>
          /\ next'
          /\ error' = ""
          /\ sinkLog' = IF sampling_process # NoSink
                        THEN <<<<sampling_process, "start_sampling_process", None>>>>
                        ELSE <<>>
          /\ nodes' = nodes
          /\ process_registry' = process_registry
          /\ sampling_process' = sampling_process
          /\ \A n \in DOMAIN nodes : \A j \in DOMAIN nodes[n].node_process_list :
                Exhausted(nodes, n, j) => Exhausted(nodes', n, j)]_vars

\* reset_distillery has been called on a pipeline with a sampling process,
\* which got the start signal, and with a chain that holds an exhausted
\* limited entry.
C15_Witness ==
    /\ op = "reset_distillery"
    /\ sampling_process # NoSink
    /\ Len(sinkLog) = 1
    /\ nodes # <<>>
    /\ Exhausted(nodes, 1, 1)

(* C16: every entry of the chain a config_distillery call has stored has a  *)
(* repeat count of 1 or more and a limited that is True or False.  The code *)
(* compiles "0rA" to an entry with the repeat count 0.                      *)
C16_RepeatCountAtLeastOne ==
    \A n \in DOMAIN nodes : \A j \in DOMAIN nodes[n].node_process_list :
        LET entry == nodes[n].node_process_list[j]
        IN  entry.opt_num >= 1 /\ entry.limited \in {"True", "False"}

\* The entries of the chain all have a limited that is True or False.
C16_ModeIsDefinite ==
    \A n \in DOMAIN nodes : \A j \in DOMAIN nodes[n].node_process_list :
        nodes[n].node_process_list[j].limited \in {"True", "False"}

\* The last run made no process.distill call on entry j of node n or on a
\* later entry of the node.
NoCallFrom(n, j) == \A c \in DOMAIN calls : ~(calls[c].node = n /\ calls[c].entry >= j)

(* C17: in one distill_node call on a node, no process of an entry is       *)
(* called once the loop has come to an entry with a None input or to a      *)
(* limited entry whose repeat count the node's exec_count has reached: a    *)
(* call with a None input makes no process call, a process call that        *)
(* returned None is the last one of the node, and no call is made on an     *)
(* exhausted limited entry or on any entry after it, unlimited ones         *)
(* included.                                                                *)
C17_BreakEndsTheEntryLoop ==
    \A i \in DOMAIN visits :
        LET v == visits[i]
            entries == nodes[v.node].node_process_list
            cs == CallsOf(v.node)
        IN  /\ v.input = None => cs = <<>>
            /\ \A c \in 1..(Len(cs) - 1) : cs[c].output # None
            /\ \A j \in DOMAIN entries :
                  (entries[j].limited = "True" /\ v.exec_count >= entries[j].opt_num)
                      => NoCallFrom(v.node, j)

\* A node whose first entry is limited and exhausted and whose second entry
\* is unlimited has been called with a present input.
C17_Witness ==
    \E i \in DOMAIN visits :
        LET v == visits[i]
            entries == nodes[v.node].node_process_list
        IN  /\ Len(entries) = 2
            /\ entries[1].limited = "True"
            /\ entries[2].limited = "False"
            /\ v.exec_count >= entries[1].opt_num
            /\ v.input # None

\* A process call of a first entry has returned None in a node with a second
\* entry.
C17_WitnessNoneMidLoop ==
    \E c \in DOMAIN calls :
        /\ calls[c].entry = 1
        /\ calls[c].output = None
        /\ Len(nodes[calls[c].node].node_process_list) = 2

\* Node n was called in the last run.
Visited(n, vs) == \E i \in DOMAIN vs : vs[i].node = n

(* C18: a distill_node call that returns adds exactly one to the exec_count *)
(* of every node it has executed, with or without entries, and leaves the   *)
(* other nodes' exec_count; a new node's exec_count is 0.  The code does    *)
(* not count the call of a node without entries.                            *)
C18_ExecCountCountsCalls ==
    [][/\ (op' = "distill_node" /\ error' = "") =>
             \A n \in DOMAIN nodes :
                 nodes'[n].exec_count =
                     nodes[n].exec_count + IF Visited(n, visits') THEN 1 ELSE 0
       /\ op' = "DistillerNode" => nodes'[Len(nodes')].exec_count = 0]_vars

\* C18 for the nodes that have entries, which the code counts.
C18_ExecCountCountsCallsOfNodesWithEntries ==
    [][/\ (op' = "distill_node" /\ error' = "") =>
             \A n \in DOMAIN nodes :
                 nodes[n].node_process_list # <<>> =>
                     nodes'[n].exec_count =
                         nodes[n].exec_count + IF Visited(n, visits') THEN 1 ELSE 0
       /\ op' = "DistillerNode" => nodes'[Len(nodes')].exec_count = 0]_vars

(* C19: a distill_node call on a node without entries returns its input,    *)
(* whatever the input.  The code returns None.                              *)
C19_EmptyNodePassesInputThrough ==
    (op = "distill_node" /\ error = "") =>
        \A i \in DOMAIN visits :
            nodes[visits[i].node].node_process_list = <<>>
                => visits[i].output = visits[i].input

\* The value a node holds after its loop over the entries: the output of the
\* last process call made in the node, or the node's input when none was made.
AfterLoop(v) ==
    LET cs == CallsOf(v.node)
    IN  IF cs = <<>> THEN v.input ELSE cs[Len(cs)].output

(* C20: a distill_node call on a node with entries that holds, after its    *)
(* loop, a value other than None (0 included) and has a next node calls the *)
(* next node with that value and returns what it returns; otherwise it      *)
(* returns the value and calls no further node.  The code hands on only the *)
(* values that are true in Python's sense.                                  *)
C20_PresentValueIsHandedOn ==
    (op = "distill_node" /\ error = "") =>
        \A i \in DOMAIN visits :
            LET v == visits[i]
                node == nodes[v.node]
            IN  node.node_process_list # <<>> =>
                    IF AfterLoop(v) # None /\ node.next_node # 0
                    THEN /\ i < Len(visits)
                         /\ visits[i + 1].node = node.next_node
                         /\ visits[i + 1].input = AfterLoop(v)
                         /\ v.output = visits[i + 1].output
                    ELSE /\ i = Len(visits)
                         /\ v.output = AfterLoop(v)

\* C20 with `present` read as true in Python's sense: not None and not 0.
C20_TruthyValueIsHandedOn ==
    (op = "distill_node" /\ error = "") =>
        \A i \in DOMAIN visits :
            LET v == visits[i]
                node == nodes[v.node]
            IN  node.node_process_list # <<>> =>
                    IF Truthy(AfterLoop(v)) /\ node.next_node # 0
                    THEN /\ i < Len(visits)
                         /\ visits[i + 1].node = node.next_node
                         /\ visits[i + 1].input = AfterLoop(v)
                         /\ v.output = visits[i + 1].output
                    ELSE /\ i = Len(visits)
                         /\ v.output = AfterLoop(v)

(* C21: after a config_distillery call that returns, whatever the state     *)
(* before it, the chain is a newly compiled one: every node of it has the   *)
(* exec_count 0, has entries and holds the sampling process registered at   *)
(* the call, no process call is counted on its entries, and next is true.   *)
C21_ConfigureInstallsFreshChain ==
    [][(op' = "config_distillery" /\ pc' = "idle" /\ error' = "") =>
          /\ next'
          /\ \A n \in DOMAIN nodes' :
                /\ nodes'[n].exec_count = 0
                /\ nodes'[n].sampling_process = sampling_process
                /\ nodes'[n].node_process_list # <<>>
          /\ ncalls' = ZeroCalls(nodes')]_vars

\* A config_distillery call has returned with a chain of two nodes on a
\* pipeline with a sampling process.
C21_Witness ==
    /\ op = "config_distillery"
    /\ pc = "idle"
    /\ error = ""
    /\ Len(nodes) = 2
    /\ next
    /\ sampling_process # NoSink

\* The flag prefix of a specification breaks a rule of cardinality: more
\* than one 'r', 'o' or 's', or not exactly one exec flag.
ViolatesCardinality(proc_cfg) ==
    LET sp == _split_proc_cfg(proc_cfg)
        r == Count(sp.node_opt, repeat_exec_token)
        o == Count(sp.node_opt, once_exec_token)
    IN  /\ sp.error = ""
        /\ \/ r > 1
           \/ o > 1
           \/ Count(sp.node_opt, sampling_token) > 1
           \/ r + o # 1

\* The first specification of the file that does not compile breaks a rule
\* of cardinality and names a process that is not registered.
FirstFaultIsBadFlagsOnUnknownName(registry, file) ==
    LET specs == SpecsOf(file)
    IN  \E i \in DOMAIN specs :
            /\ ViolatesCardinality(specs[i])
            /\ ~Resolves(registry, specs[i])
            /\ \A j \in 1..(i - 1) :
                  ~ViolatesCardinality(specs[j]) /\ Resolves(registry, specs[j])

(* C22: a config_distillery call that has ended on a file whose first       *)
(* faulty specification breaks a rule of flag cardinality and names an      *)
(* unregistered process has raised the invalid-node-configuration error,    *)
(* not the not-in-registry error.  The code looks up "roX" in the registry. *)
C22_SyntaxErrorBeforeLookup ==
    [][(/\ op' = "config_distillery"
        /\ pc' = "idle"
        /\ FirstFaultIsBadFlagsOnUnknownName(process_registry, cfg'))
          => error' = InvalidNodeConfig]_vars

\* C22 for the specifications with no exec flag at all.
C22_NoExecFlagFailsBeforeLookup ==
    [][(/\ op' = "config_distillery"
        /\ pc' = "idle"
        /\ FirstFaultIsBadFlagsOnUnknownName(process_registry, cfg')
        /\ \A i \in DOMAIN SpecsOf(cfg') :
              ~(/\ Contains(SpecsOf(cfg')[i], repeat_exec_token)
                /\ Contains(SpecsOf(cfg')[i], once_exec_token)))
          => error' = InvalidNodeConfig]_vars

\* The digits a string starts with.
RECURSIVE LeadingDigits(_)
LeadingDigits(s) ==
    IF s = <<>> \/ ~IsDigit(Head(s)) THEN <<>>
    ELSE <<Head(s)>> \o LeadingDigits(Tail(s))

\* The number a string of digits writes in base ten.
RECURSIVE DecimalValue(_)
DecimalValue(digits) ==
    IF digits = <<>> THEN 0
    ELSE 10 * DecimalValue(SubSeq(digits, 1, Len(digits) - 1))
            + DigitVal(digits[Len(digits)])

\* A specification of the form [digits][flags]UnitName, with one exec flag,
\* at most one sample flag and no option list.
IsPlainValidSpec(proc_cfg) ==
    LET sp == _split_proc_cfg(proc_cfg)
        digits == LeadingDigits(sp.node_opt)
        flags == SubSeq(sp.node_opt, Len(digits) + 1, Len(sp.node_opt))
    IN  /\ sp.error = ""
        /\ \A i \in DOMAIN flags :
              flags[i] \in {repeat_exec_token, once_exec_token, sampling_token}
        /\ Count(flags, repeat_exec_token) + Count(flags, once_exec_token) = 1
        /\ Count(flags, sampling_token) <= 1
        /\ ~Contains(proc_cfg, opt_start_token)

\* The entry is what the specification writes.
EntryAsWritten(entry, proc_cfg, registry) ==
    LET first == CHOOSE i \in DOMAIN proc_cfg :
                    IsUpper(proc_cfg[i]) /\ \A k \in 1..(i - 1) : ~IsUpper(proc_cfg[k])
        prefix == SubSeq(proc_cfg, 1, first - 1)
        name == RStrip(SubSeq(proc_cfg, first, Len(proc_cfg)))
        digits == LeadingDigits(prefix)
    IN  /\ entry.opt_num = IF digits = <<>> THEN 1 ELSE DecimalValue(digits)
        /\ (entry.limited = "True") = Contains(prefix, once_exec_token)
        /\ (entry.limited = "False") = Contains(prefix, repeat_exec_token)
        /\ entry.sample_flag = Contains(prefix, sampling_token)
        /\ name \in DOMAIN registry
        /\ entry.process = registry[name]

(* C23: in the chain of a config_distillery call that has returned, the     *)
(* entry of every specification of the form [digits][flags]UnitName with    *)
(* one exec flag has the repeat count the leading digits write, or 1 when   *)
(* there are none, is limited exactly when 'o' is written and unlimited     *)
(* exactly when 'r' is, has the sample flag exactly when 's' is written,    *)
(* and holds the process registered under the text from the first           *)
(* upper-case character on.                                                 *)
C23_EntryIsWhatTheSpecificationWrites ==
    Compiled =>
        \A i \in DOMAIN nodes :
            LET specs == Split(cfg[i], separator_token)
            IN  \A j \in DOMAIN specs :
                    IsPlainValidSpec(specs[j]) =>
                        EntryAsWritten(nodes[i].node_process_list[j], specs[j],
                                       process_registry)

\* A file has compiled with the specifications "oB", "rsA" and "2osA".
C23_Witness ==
    /\ Compiled
    /\ Len(nodes) = 2
    /\ Len(nodes[1].node_process_list) = 2
    /\ nodes[1].node_process_list[1].limited = "True"
    /\ nodes[1].node_process_list[2].sample_flag
    /\ nodes[1].node_process_list[2].opt_num = 1
    /\ nodes[2].node_process_list[1].opt_num = 2
    /\ IsPlainValidSpec(Split(cfg[2], separator_token)[1])

(* C24: a distill call in which a process raises ends in the exception and  *)
(* returns nothing; next keeps the value it had before the call, the sink   *)
(* calls of the run are the store_sample calls made before the exception,   *)
(* with no continue or stop call, and the exec_count of the node whose      *)
(* process raised is not incremented.                                       *)
C24_RaisingRunIsNotRecovered ==
    [][(op' = "distill" /\ \E c \in DOMAIN calls' : calls'[c].raised) =>
          /\ error' = ProcessError
          /\ result' = None
          /\ next' = next
          /\ calls'[Len(calls')].raised
          /\ \A e \in DOMAIN sinkLog' : sinkLog'[e][2] = "store_sample"
          /\ LET n == calls'[Len(calls')].node
             IN  nodes'[n].exec_count = nodes[n].exec_count]_vars

\* A process of the second node of the chain has raised in a run in which
\* the first node had stored samples, on a pipeline with a sampling process.
C24_Witness ==
    /\ op = "distill"
    /\ error = ProcessError
    /\ calls # <<>>
    /\ calls[Len(calls)].raised
    /\ calls[Len(calls)].node = 2
    /\ sampling_process # NoSink
    /\ Len(sinkLog) >= 2

(* C25: store_sample of the tabular sink, called with a sample that is no
   dict (None included), raises the sink's ValueError and leaves the table,
   the current batch index and the set of sampled names as they were. *)
C25_NonDictSampleRaisesAndLeavesTable ==
    [][(op' = "store_sample" /\ ~IsDict(stored'))
       => /\ error' = ValueError
          /\ sample2table'.table = sample2table.table
          /\ sample2table'.current_index = sample2table.current_index
          /\ sample2table'.sampled_names = sample2table.sampled_names]_vars

\* None was stored, and refused, in the second batch of a table that holds
\* rows.
C25_Witness ==
    /\ op = "store_sample"
    /\ stored = NoneSample
    /\ error = ValueError
    /\ sample2table.current_index > 0
    /\ sample2table.sampled_names # {}
    /\ Rows(sample2table) > 1

\* The chain was compiled by this call.
Compiles == op' = "config_distillery" /\ error' = ""

\* No node of the chain has been executed more often than the one before it.
CountsDescend(chain) ==
    \A i \in 2..Len(chain) : chain[i].exec_count <= chain[i - 1].exec_count

\* The chain this call leaves is the one it found, no count lower than it was.
CountsKept ==
    /\ Len(nodes') = Len(nodes)
    /\ \A i \in DOMAIN nodes : nodes'[i].exec_count >= nodes[i].exec_count

\* This call is a distill that executes the chain.
ExecutesChain == op' = "distill" /\ nodes # <<>> /\ next

\* A process of the head node raised in this call.
HeadRaised == \E c \in DOMAIN calls' : calls'[c].node = 1 /\ calls'[c].raised

\* The exec_count of the head node is, or is not, one more than it was.
HeadCounts(counted) ==
    nodes # <<>> =>
        nodes'[1].exec_count = nodes[1].exec_count + (IF counted THEN 1 ELSE 0)

SinkCalls == {sinkLog'[e][2] : e \in DOMAIN sinkLog'}

\* This call starts a batch: reset_distillery, or a config_distillery that
\* succeeds.
StartsBatch == op' = "reset_distillery" \/ Compiles

(* C27: a call that signals stop_sampling_process leaves next false, and   *)
(* from then on, until reset_distillery or a successful config_distillery, *)
(* next stays false and no call, distill included, makes a store_sample,   *)
(* continue_sampling_process or stop_sampling_process call on the sink.    *)
C27_NoSinkCallAfterStop ==
    [][/\ "stop_sampling_process" \in SinkCalls => ~next'
       /\ (~next /\ ~StartsBatch) =>
             /\ ~next'
             /\ SinkCalls \cap {"store_sample", "continue_sampling_process",
                                "stop_sampling_process"} = {}]_vars

\* A distill call on a stopped pipeline whose chain and nodes have a sink:
\* it has run nothing.
C27_Witness ==
    /\ op = "distill"
    /\ ~next
    /\ nodes # <<>>
    /\ nodes[1].exec_count > 0
    /\ sampling_process # NoSink
    /\ nodes[1].sampling_process # NoSink
    /\ \E j \in DOMAIN nodes[1].node_process_list :
           nodes[1].node_process_list[j].sample_flag
    /\ error = UnboundLocalError
    /\ sinkLog = <<>>

\* The sink calls of this call that are store_sample calls, and the others.
StoreCalls == {e \in DOMAIN sinkLog' : sinkLog'[e][2] = "store_sample"}
SignalCalls == DOMAIN sinkLog' \ StoreCalls

(* C28: the nodes of a chain hold the sink that was registered when        *)
(* config_distillery built them, and keep it whatever is registered later; *)
(* every store_sample call goes to that sink, and none is made when there  *)
(* was none, while the start, continue and stop signals go to the sink     *)
(* registered at the time of the call.                                     *)
C28_SamplesGoToTheSinkOfTheCompile ==
    [][/\ IF Compiles
          THEN \A n \in DOMAIN nodes' :
                   nodes'[n].sampling_process = sampling_process
          ELSE /\ Len(nodes') = Len(nodes)
               /\ \A n \in DOMAIN nodes :
                      nodes'[n].sampling_process = nodes[n].sampling_process
       /\ \A e \in StoreCalls :
              /\ sinkLog'[e][1] # NoSink
              /\ \E n \in DOMAIN nodes :
                     sinkLog'[e][1] = nodes[n].sampling_process
       /\ \A e \in SignalCalls :
              /\ sinkLog'[e][1] # NoSink
              /\ sinkLog'[e][1] = sampling_process']_vars

\* A sink registered after the chain was built: a sampled entry has run and
\* produced a sample, and the sink's only call is the continue signal.
C28_Witness ==
    /\ op = "distill"
    /\ sampling_process # NoSink
    /\ nodes # <<>>
    /\ nodes[1].sampling_process = NoSink
    /\ \E c \in DOMAIN calls :
           /\ nodes[calls[c].node].node_process_list[calls[c].entry].sample_flag
           /\ calls[c].samples # None
    /\ sinkLog = <<<<sampling_process, "continue_sampling_process", None>>>>

\* The loop of the recorded distill_node call v came to entry j with a value
\* other than None and broke there: j is the first limited entry whose repeat
\* count the node's exec_count had reached.
ShortCircuitedAt(v, j) ==
    LET entries == nodes[v.node].node_process_list
        reached(k) == entries[k].limited = "True"
                      /\ v.exec_count >= entries[k].opt_num
    IN  /\ reached(j)
        /\ \A k \in 1..(j - 1) : ~reached(k)
        /\ AfterLoop(v) # None

\* The node of the recorded call v was counted, and its next node was called
\* with the value the node held.
CountedAndHandedOn(i) ==
    LET v == visits[i]
        node == nodes[v.node]
    IN  /\ node.exec_count = v.exec_count + 1
        /\ node.next_node # 0 =>
               /\ i < Len(visits)
               /\ visits[i + 1].node = node.next_node
               /\ visits[i + 1].input = AfterLoop(v)

(* C29: a distill_node call whose entry loop breaks on an exhausted limited *)
(* entry while the value is not None (0 included) still adds one to the     *)
(* node's exec_count and, when the node has a next node, still calls it     *)
(* with the value held at the break: the node's input, or the output of the *)
(* entries run before the exhausted one.  The code calls the next node only *)
(* with values that are true in Python's sense.                             *)
C29_ExhaustedNodeHandsOnPresentValue ==
    \A i \in DOMAIN visits :
        \A j \in DOMAIN nodes[visits[i].node].node_process_list :
            ShortCircuitedAt(visits[i], j) => CountedAndHandedOn(i)

\* C29 with `present` read as true in Python's sense: not None and not 0.
C29_ExhaustedNodeHandsOnTruthyValue ==
    \A i \in DOMAIN visits :
        \A j \in DOMAIN nodes[visits[i].node].node_process_list :
            (ShortCircuitedAt(visits[i], j) /\ Truthy(AfterLoop(visits[i])))
                => CountedAndHandedOn(i)

\* The specification writes the name: it is the name, after a prefix or none.
WritesName(proc_cfg, name) ==
    \E k \in DOMAIN proc_cfg :
        RStrip(SubSeq(proc_cfg, k, Len(proc_cfg))) = name

\* The name the specification is looked up under in the registry.
NameOf(proc_cfg) == ProcessNameAndOpt(_split_proc_cfg(proc_cfg).process).proc_name

(* C30: a process registered under a name whose first character is not      *)
(* upper-case, as PrinterProcess is under "dPRINT", is resolved by no        *)
(* specification: no specification of a file is looked up under that name,   *)
(* and a config_distillery call on a file with a specification that writes   *)
(* the name fails or gives that specification's entry the process            *)
(* registered under another name.                                            *)
C30_LowerCaseNameIsNeverResolved ==
    (op = "config_distillery" /\ pc = "idle") =>
        \A name \in DOMAIN process_registry : ~IsUpper(name[1]) =>
            \A i \in DOMAIN cfg :
                LET specs == Split(cfg[i], separator_token)
                IN  \A j \in DOMAIN specs :
                        /\ _split_proc_cfg(specs[j]).error = ""
                              => NameOf(specs[j]) # name
                        /\ (Compiled /\ WritesName(specs[j], name)) =>
                              LET entry == nodes[i].node_process_list[j]
                              IN  /\ NameOf(specs[j]) \in DOMAIN process_registry
                                  /\ entry.process
                                        = process_registry[NameOf(specs[j])]
                                  /\ entry.process # process_registry[name]

\* A file with the specification "rdPRINT" has compiled: its entry holds the
\* process registered under "PRINT".
C30_Witness ==
    /\ Compiled
    /\ Len(cfg) = 2
    /\ cfg[2] = Line(Spec_rdPRINT)
    /\ PrinterName \in DOMAIN process_registry
    /\ nodes[2].node_process_list[1].process.kind = "Dec"

===========================================================================
